---- MODULE Spec2Model ----
(***************************************************************************)
(* Model of ladderapiproject/api/models.py: the Django models of the       *)
(* ladder API, their foreign keys (all on_delete=CASCADE), primary keys,   *)
(* UniqueConstraints, field validators and Match.clean.                    *)
(*                                                                         *)
(* The store is one table per model.  A row carries its primary key, its   *)
(* foreign keys and one payload value standing for its other columns.      *)
(***************************************************************************)
EXTENDS Integers, Sequences, FiniteSets, TLC

VARIABLES
    db,       \* the store: model name -> set of rows
    last,     \* the last operation on the store and what it answered
    writers,  \* concurrent writers: each one's instance and position
    attempts, \* inserts begun by the writers so far
    txn,      \* the transaction of a delete in progress
    form,     \* a Match instance on its way through full_clean() and save()
    draft,    \* the text about to be validated as a friend code
    probe,    \* the last field validation: field, value and outcome
    cells     \* the stored value of each choices column of one row

fieldVars == <<form, draft, probe, cells>>

vars == <<db, last, writers, attempts, txn, form, draft, probe, cells>>

\* ------------------------------------------------------------------ bounds
\* ids available to Team, Tournament and Player rows
MaxParent == 2
\* ids available to the rows of every other model with an automatic id
MaxChild == 1
\* rows the store holds at most, all tables together
MaxRows == 6
\* largest payload value of a row
MaxData == 1
\* concurrent writers
NWriters == 2
\* inserts the writers begin in one run
MaxAttempts == 3
\* rows other connections insert, in one run, while a delete is in progress
MaxConcurrent == 1
\* Match rows the validated creates fill the table up to
MaxMatches == 4
\* edits applied to a friend code before it is validated
MaxEdits == 2
\* how far below 0 and above 12 the integers tried for a count go
ProbeMargin == 3

\* ------------------------------------------------------------------ schema
CASCADE == "CASCADE"

NoFks == [f \in {} |-> [to |-> "", on_delete |-> CASCADE]]

FK(to) == [to |-> to, on_delete |-> CASCADE]

Tournament == [pk |-> "id", fks |-> NoFks, unique |-> {}]

Team == [pk |-> "id", fks |-> NoFks, unique |-> {}]

\* TeamStats with an automatic id as primary key, team a plain foreign key
TeamStats_AutoId == [pk |-> "id", fks |-> [team |-> FK("Team")], unique |-> {}]

TeamStats == [pk |-> "team", fks |-> [team |-> FK("Team")], unique |-> {}]

\* Match with team_two declared on_delete=DO_NOTHING
Match_TeamTwoKept ==
    [pk |-> "id",
     fks |-> [team_one |-> FK("Team"),
              team_two |-> [to |-> "Team", on_delete |-> "DO_NOTHING"],
              tournament |-> FK("Tournament")],
     unique |-> {}]

Match ==
    [pk |-> "id",
     fks |-> [team_one |-> FK("Team"), team_two |-> FK("Team"),
              tournament |-> FK("Tournament")],
     unique |-> {}]

MatchTeamData ==
    [pk |-> "id", fks |-> [match |-> FK("Match"), team |-> FK("Team")], unique |-> {}]

Player == [pk |-> "id", fks |-> [team |-> FK("Team")], unique |-> {}]

\* MatchPlayerData without its Meta.constraints
MatchPlayerData_NoConstraint ==
    [pk |-> "id", fks |-> [player |-> FK("Player"), match |-> FK("Match")],
     unique |-> {}]

MatchPlayerData ==
    [pk |-> "id", fks |-> [player |-> FK("Player"), match |-> FK("Match")],
     unique |-> {{"player", "match"}}]

WarTournamentWinners ==
    [pk |-> "tournament",
     fks |-> [tournament |-> FK("Tournament"), final_match |-> FK("Match")],
     unique |-> {}]

Event == [pk |-> "id", fks |-> [tournament |-> FK("Tournament")], unique |-> {}]

MogiTournamentWinners ==
    [pk |-> "tournament",
     fks |-> [tournament |-> FK("Tournament"), final_event |-> FK("Event")],
     unique |-> {}]

EventPlayerData ==
    [pk |-> "id", fks |-> [event |-> FK("Event"), player |-> FK("Player")],
     unique |-> {{"event", "player"}}]

EventPlayerStats == [pk |-> "player", fks |-> [player |-> FK("Player")], unique |-> {}]

ApiKeys == [pk |-> "player", fks |-> [player |-> FK("Player")], unique |-> {}]

Permissions == [pk |-> "id", fks |-> NoFks, unique |-> {}]

PlayerPermissions ==
    [pk |-> "id", fks |-> [player |-> FK("Player"), permission |-> FK("Permissions")],
     unique |-> {{"player", "permission"}}]

Schema ==
    [Tournament |-> Tournament, Team |-> Team, TeamStats |-> TeamStats,
     Match |-> Match, MatchTeamData |-> MatchTeamData, Player |-> Player,
     MatchPlayerData |-> MatchPlayerData,
     WarTournamentWinners |-> WarTournamentWinners, Event |-> Event,
     MogiTournamentWinners |-> MogiTournamentWinners,
     EventPlayerData |-> EventPlayerData, EventPlayerStats |-> EventPlayerStats,
     ApiKeys |-> ApiKeys, Permissions |-> Permissions,
     PlayerPermissions |-> PlayerPermissions]

Models == DOMAIN Schema

Fields(m) == DOMAIN Schema[m].fks

\* ids a table's rows can take within the bounds
Ids(m) ==
    IF m \in {"Team", "Tournament", "Player", "TeamStats", "EventPlayerStats",
              "ApiKeys", "WarTournamentWinners", "MogiTournamentWinners"}
    THEN 1..MaxParent ELSE 1..MaxChild

\* payloads tried for a row: they vary where the primary key is a parent
\* reference, so that a second write for the same parent is a different row
DataVals(m) == IF Schema[m].pk = "id" THEN {0} ELSE 0..MaxData

\* ------------------------------------------------------------------ store
Pks(d, m) == {r.pk : r \in d[m]}

Row(d, m, pk) == CHOOSE r \in d[m] : r.pk = pk

\* every row of the store, as <<model, pk>>
AllObjs(d) == UNION {{<<m, r.pk>> : r \in d[m]} : m \in Models}

\* every foreign key of row r of model m names a stored row
FksExist(d, m, r) ==
    \A f \in Fields(m) : r.fk[f] \in Pks(d, Schema[m].fks[f].to)

\* no stored row holds a foreign key to a row that is not stored
NoDangling(d) == \A m \in Models : \A r \in d[m] : FksExist(d, m, r)

\* no UniqueConstraint of m is broken by r against the other rows of the table
UniqueOk(d, m, r) ==
    \A u \in Schema[m].unique :
        \A o \in d[m] : o.pk # r.pk => \E f \in u : o.fk[f] # r.fk[f]

\* the primary key of a new row: the parent reference for a model whose
\* foreign key is its primary key, otherwise an id the database assigns
NewPk(m, fk, id) == IF Schema[m].pk = "id" THEN id ELSE fk[Schema[m].pk]

\* INSERT: the database rejects a duplicate primary key, a foreign key to a
\* missing row, and a broken UniqueConstraint
CanInsert(d, m, r) ==
    /\ r.pk \notin Pks(d, m)
    /\ FksExist(d, m, r)
    /\ UniqueOk(d, m, r)

\* what the database answers to a write of r that it rejects
Rejection(d, m, r, insert) ==
    IF insert /\ r.pk \in Pks(d, m) THEN "IntegrityError: primary key"
    ELSE IF ~FksExist(d, m, r) THEN "IntegrityError: foreign key"
    ELSE "IntegrityError: unique constraint"

Insert(d, m, r) == [d EXCEPT ![m] = @ \cup {r}]

\* UPDATE of the row with r's primary key
CanUpdate(d, m, r) ==
    /\ r.pk \in Pks(d, m)
    /\ FksExist(d, m, r)
    /\ UniqueOk(d, m, r)

Update(d, m, r) == [d EXCEPT ![m] = {o \in @ : o.pk # r.pk} \cup {r}]

\* the rows that reference, through a CASCADE foreign key, a row of objs
Related(d, objs) ==
    UNION {{<<m, r.pk>> : r \in
               {x \in d[m] : \E f \in Fields(m) :
                    /\ Schema[m].fks[f].on_delete = CASCADE
                    /\ <<Schema[m].fks[f].to, x.fk[f]>> \in objs}}
           : m \in Models}

\* a collector that stops after the direct dependents
Collect_OneLevel(d, objs) == objs \cup Related(d, objs)

\* the rows a delete of objs removes: objs and everything that cascades
RECURSIVE Collect(_, _)
Collect(d, objs) ==
    IF Related(d, objs) \subseteq objs THEN objs
    ELSE Collect(d, objs \cup Related(d, objs))

\* a delete that matches rows by primary key in every table
Delete_ByPk(d, objs) ==
    [m \in Models |-> {r \in d[m] : r.pk \notin {o[2] : o \in objs}}]

Delete(d, objs) == [m \in Models |-> {r \in d[m] : <<m, r.pk>> \notin objs}]

\* ------------------------------------------------------------------ actions
Writers == 1..NWriters

Idle == [pc |-> "idle", m |-> "", fk |-> NoFks, cleaned |-> FALSE, result |-> ""]

NoLast == [op |-> "none", model |-> "", pk |-> 0, result |-> "", deleted |-> {}]

NoTxn == [pc |-> "idle", objs |-> {}, pending |-> {}, inserted |-> 0, result |-> ""]

NoForm == [pc |-> "idle", fk |-> NoFks, error |-> ""]

NoDraft == [text |-> <<>>, edits |-> 0]

NoProbe == [op |-> "none"]

NoRow == [model |-> "", values |-> NoFks]

InitFields ==
    /\ form = NoForm
    /\ draft = NoDraft
    /\ probe = NoProbe
    /\ cells = NoRow

InitOthers ==
    /\ writers = [p \in Writers |-> Idle]
    /\ attempts = 0
    /\ txn = NoTxn
    /\ InitFields

Init ==
    /\ db = [m \in Models |-> {}]
    /\ last = NoLast
    /\ InitOthers

\* the foreign keys a caller may pass: an id of the referenced table each
\* the store is kept within MaxRows rows
Room(d) == Cardinality(AllObjs(d)) < MaxRows

FkChoices(m) ==
    {fk \in [Fields(m) -> 1..MaxParent] :
        \A f \in Fields(m) : fk[f] \in Ids(Schema[m].fks[f].to)}

\* the ids the database may assign to a new row (none where the primary key
\* is the parent reference)
AutoIds(m) == IF Schema[m].pk = "id" THEN Ids(m) ELSE {0}

\* Model.objects.create(...): one INSERT
Create(m, fk, id, data) ==
    LET r == [pk |-> NewPk(m, fk, id), fk |-> fk, data |-> data] IN
    /\ Schema[m].pk = "id" => id \notin Pks(db, m)
    /\ UNCHANGED fieldVars /\ UNCHANGED <<writers, attempts, txn>>
    /\ IF CanInsert(db, m, r)
       THEN /\ db' = Insert(db, m, r)
            /\ last' = [op |-> "create", model |-> m, pk |-> 0,
                        result |-> "ok", deleted |-> {}]
       ELSE /\ db' = db
            /\ last' = [op |-> "create", model |-> m, pk |-> 0,
                        result |-> Rejection(db, m, r, TRUE), deleted |-> {}]

\* instance.delete(): the row and everything that cascades from it
DeleteObj(m, pk) ==
    LET objs == Collect(db, {<<m, pk>>}) IN
    /\ pk \in Pks(db, m)
    /\ UNCHANGED fieldVars /\ UNCHANGED <<writers, attempts, txn>>
    /\ db' = Delete(db, objs)
    /\ last' = [op |-> "delete", model |-> m, pk |-> pk, result |-> "ok",
                deleted |-> {o[1] : o \in objs}]

\* instance.save() with the primary key set: UPDATE the row with that key,
\* INSERT when there is none
Save(m, fk, id, data) ==
    LET r == [pk |-> NewPk(m, fk, id), fk |-> fk, data |-> data] IN
    /\ Schema[m].pk = "id" => id \in Pks(db, m)
    /\ r.pk \notin Pks(db, m) => Room(db)
    /\ UNCHANGED fieldVars /\ UNCHANGED <<writers, attempts, txn>>
    /\ IF r.pk \in Pks(db, m)
       THEN IF CanUpdate(db, m, r)
            THEN /\ db' = Update(db, m, r)
                 /\ last' = [op |-> "update", model |-> m, pk |-> 0,
                             result |-> "ok", deleted |-> {}]
            ELSE /\ db' = db
                 /\ last' = [op |-> "update", model |-> m, pk |-> 0,
                             result |-> Rejection(db, m, r, FALSE), deleted |-> {}]
       ELSE IF CanInsert(db, m, r)
            THEN /\ db' = Insert(db, m, r)
                 /\ last' = [op |-> "insert", model |-> m, pk |-> 0,
                             result |-> "ok", deleted |-> {}]
            ELSE /\ db' = db
                 /\ last' = [op |-> "insert", model |-> m, pk |-> 0,
                             result |-> Rejection(db, m, r, TRUE), deleted |-> {}]

Next ==
    \/ /\ Room(db)
       /\ \E m \in Models : \E fk \in FkChoices(m) : \E id \in AutoIds(m) :
              \E data \in DataVals(m) : Create(m, fk, id, data)
    \/ \E m \in Models : \E fk \in FkChoices(m) : \E id \in AutoIds(m) :
           \E data \in DataVals(m) : Save(m, fk, id, data)
    \/ \E m \in Models : \E pk \in Ids(m) : DeleteObj(m, pk)

Spec == Init /\ [][Next]_vars

\* ------------------------------------------------- concurrent writers
\* the models the writers insert into: the per-pair data rows
PairModels == {"MatchPlayerData", "EventPlayerData", "PlayerPermissions"}

\* a store with two Teams, a Tournament, a Player per Team, a Match, an
\* Event and a Permissions row, as the creates above leave it
SeedDb ==
    [m \in Models |->
        CASE m = "Team" -> {[pk |-> t, fk |-> NoFks, data |-> 0] : t \in {1, 2}}
          [] m = "Tournament" -> {[pk |-> 1, fk |-> NoFks, data |-> 0]}
          [] m = "Permissions" -> {[pk |-> 1, fk |-> NoFks, data |-> 0]}
          [] m = "Player" ->
                {[pk |-> t, fk |-> [team |-> t], data |-> 0] : t \in {1, 2}}
          [] m = "Match" ->
                {[pk |-> 1, fk |-> [team_one |-> 1, team_two |-> 2, tournament |-> 1],
                  data |-> 0]}
          [] m = "Event" -> {[pk |-> 1, fk |-> [tournament |-> 1], data |-> 0]}
          [] OTHER -> {}]

InitWriters ==
    /\ db = SeedDb
    /\ last = NoLast
    /\ InitOthers

\* the id the database gives the next row of table m
FreshId(d, m) ==
    CHOOSE i \in 1..(Cardinality(d[m]) + 1) : i \notin Pks(d, m)

\* writer p builds an unsaved instance of m that references stored rows;
\* its payload is p
WBegin(p, m, fk) ==
    /\ writers[p].pc = "idle"
    /\ FksExist(db, m, [pk |-> 0, fk |-> fk, data |-> p])
    /\ attempts < MaxAttempts
    /\ attempts' = attempts + 1
    /\ writers' = [writers EXCEPT ![p] =
           [pc |-> "built", m |-> m, fk |-> fk, cleaned |-> FALSE, result |-> ""]]
    /\ UNCHANGED fieldVars /\ UNCHANGED <<db, last, txn>>

\* instance.full_clean(): the foreign keys and the UniqueConstraint are
\* checked against the store as it is now
WFullClean(p) ==
    LET w == writers[p]
        r == [pk |-> 0, fk |-> w.fk, data |-> p]
    IN
    /\ w.pc = "built"
    /\ IF FksExist(db, w.m, r) /\ UniqueOk(db, w.m, r)
       THEN writers' = [writers EXCEPT ![p].pc = "validated", ![p].cleaned = TRUE]
       ELSE writers' = [writers EXCEPT ![p].pc = "done",
                                       ![p].result = "ValidationError"]
    /\ UNCHANGED fieldVars /\ UNCHANGED <<db, last, attempts, txn>>

\* instance.save() of the unsaved instance: one INSERT
WSave(p) ==
    LET w == writers[p]
        r == [pk |-> FreshId(db, w.m), fk |-> w.fk, data |-> p]
    IN
    /\ w.pc \in {"built", "validated"}
    /\ IF CanInsert(db, w.m, r)
       THEN /\ db' = Insert(db, w.m, r)
            /\ writers' = [writers EXCEPT ![p].pc = "done", ![p].result = "ok"]
       ELSE /\ db' = db
            /\ writers' = [writers EXCEPT ![p].pc = "done",
                                ![p].result = Rejection(db, w.m, r, TRUE)]
    /\ UNCHANGED fieldVars /\ UNCHANGED <<last, attempts, txn>>

\* the caller has seen the outcome
WFinish(p) ==
    /\ writers[p].pc = "done"
    /\ writers' = [writers EXCEPT ![p] = Idle]
    /\ UNCHANGED fieldVars /\ UNCHANGED <<db, last, attempts, txn>>

NextWriters ==
    \/ \E p \in Writers : \E m \in PairModels : \E fk \in FkChoices(m) :
           WBegin(p, m, fk)
    \/ \E p \in Writers : WFullClean(p)
    \/ \E p \in Writers : WSave(p)
    \/ \E p \in Writers : WFinish(p)

SpecWriters == InitWriters /\ [][NextWriters]_vars

\* ------------------------------------------------- a delete, step by step
\* Model.delete() collects the rows to remove, then deletes them table by
\* table inside one database transaction, dependents first, and commits.

\* the seeded store with dependents of both Teams and of the Tournament
TxnSeedDb ==
    [m \in Models |->
        CASE m = "TeamStats" -> {[pk |-> 1, fk |-> [team |-> 1], data |-> 0]}
          [] m = "MatchTeamData" ->
                {[pk |-> 1, fk |-> [match |-> 1, team |-> 1], data |-> 0]}
          [] m = "MatchPlayerData" ->
                {[pk |-> 1, fk |-> [player |-> 2, match |-> 1], data |-> 0]}
          [] m = "WarTournamentWinners" ->
                {[pk |-> 1, fk |-> [tournament |-> 1, final_match |-> 1], data |-> 0]}
          [] m = "EventPlayerData" ->
                {[pk |-> 1, fk |-> [event |-> 1, player |-> 1], data |-> 0]}
          [] OTHER -> SeedDb[m]]

InitTxn ==
    /\ db = TxnSeedDb
    /\ last = NoLast
    /\ InitOthers

\* rows of `objs` that some row of `left` references
Referenced(d, objs, left) ==
    {o \in objs : \E x \in left : \E r \in d[x[1]] :
        /\ r.pk = x[2]
        /\ \E f \in Fields(x[1]) : <<Schema[x[1]].fks[f].to, r.fk[f]>> = o}

\* collect the rows a delete of <<m, pk>> removes and open the transaction
TBegin(m, pk) ==
    /\ txn.pc = "idle"
    /\ pk \in Pks(db, m)
    /\ txn' = [pc |-> "open", objs |-> Collect(db, {<<m, pk>>}), pending |-> {},
               inserted |-> txn.inserted, result |-> ""]
    /\ UNCHANGED fieldVars /\ UNCHANGED <<db, last, writers, attempts>>

\* a delete step that commits on its own: every DELETE is visible at once
TDeleteBatch_Autocommit(m) ==
    LET left == txn.objs \ txn.pending
        batch == {o \in left : o[1] = m}
    IN
    /\ txn.pc = "open"
    /\ batch # {}
    /\ Referenced(db, batch, left \ batch) = {}
    /\ txn' = [txn EXCEPT !.pending = @ \cup batch]
    /\ db' = Delete(db, batch)
    /\ UNCHANGED fieldVars /\ UNCHANGED <<last, writers, attempts>>

\* DELETE the collected rows of one table, once no collected row that is
\* still there references them; the rows are gone for the transaction only
TDeleteBatch(m) ==
    LET left == txn.objs \ txn.pending
        batch == {o \in left : o[1] = m}
    IN
    /\ txn.pc = "open"
    /\ batch # {}
    /\ Referenced(db, batch, left \ batch) = {}
    /\ txn' = [txn EXCEPT !.pending = @ \cup batch]
    /\ UNCHANGED fieldVars /\ UNCHANGED <<db, last, writers, attempts>>

\* COMMIT: the deletes take effect together, unless a row inserted meanwhile
\* references a deleted one, which fails the transaction
TCommit ==
    /\ txn.pc = "open"
    /\ txn.pending = txn.objs
    /\ IF NoDangling(Delete(db, txn.objs))
       THEN /\ db' = Delete(db, txn.objs)
            /\ txn' = [NoTxn EXCEPT !.result = "ok", !.inserted = txn.inserted]
       ELSE /\ db' = db
            /\ txn' = [NoTxn EXCEPT !.result = "IntegrityError: foreign key",
                                    !.inserted = txn.inserted]
    /\ UNCHANGED fieldVars /\ UNCHANGED <<last, writers, attempts>>

\* an error inside the transaction: ROLLBACK
TAbort ==
    /\ txn.pc = "open"
    /\ txn' = [NoTxn EXCEPT !.result = "rolled back", !.inserted = txn.inserted]
    /\ UNCHANGED fieldVars /\ UNCHANGED <<db, last, writers, attempts>>

\* another connection inserts a row while the delete is in progress
TInsert(m, fk) ==
    LET r == [pk |-> NewPk(m, fk, FreshId(db, m)), fk |-> fk, data |-> 0] IN
    /\ txn.pc = "open"
    /\ txn.inserted < MaxConcurrent
    /\ CanInsert(db, m, r)
    /\ db' = Insert(db, m, r)
    /\ txn' = [txn EXCEPT !.inserted = @ + 1]
    /\ UNCHANGED fieldVars /\ UNCHANGED <<last, writers, attempts>>

NextTxn ==
    \/ \E m \in {"Team", "Tournament"} : \E pk \in Ids(m) : TBegin(m, pk)
    \/ \E m \in Models : TDeleteBatch(m)
    \/ TCommit
    \/ TAbort
    \/ \E m \in Models : \E fk \in FkChoices(m) : TInsert(m, fk)

SpecTxn == InitTxn /\ [][NextTxn]_vars

\* ------------------------------------------------- validated Match create
\* Model.__eq__ of two saved Team instances: the same primary key
Team_eq(a, b) == a = b

\* a clean that raises for two different Teams
Match_clean_NotEqual(team_one, team_two) ==
    IF ~Team_eq(team_one, team_two) THEN "ValidationError" ELSE ""

\* Match.clean(): raises ValidationError when team_one == team_two
Match_clean(team_one, team_two) ==
    IF Team_eq(team_one, team_two) THEN "ValidationError" ELSE ""

InitMatch ==
    /\ db = SeedDb
    /\ last = NoLast
    /\ InitOthers

\* Match(team_one=..., team_two=..., tournament=...) with stored rows
MBuild(fk) ==
    /\ form.pc = "idle"
    /\ FksExist(db, "Match", [pk |-> 0, fk |-> fk, data |-> 0])
    /\ form' = [pc |-> "built", fk |-> fk, error |-> ""]
    /\ UNCHANGED <<db, last, writers, attempts, txn, draft, probe, cells>>

\* instance.full_clean(): runs clean(); a ValidationError ends the create
MFullClean ==
    LET e == Match_clean(form.fk.team_one, form.fk.team_two) IN
    /\ form.pc = "built"
    /\ form' = [form EXCEPT !.pc = IF e = "" THEN "clean" ELSE "invalid",
                            !.error = e]
    /\ UNCHANGED <<db, last, writers, attempts, txn, draft, probe, cells>>

\* instance.save() after a full_clean() that raised nothing
MSave ==
    LET r == [pk |-> FreshId(db, "Match"), fk |-> form.fk, data |-> 0] IN
    /\ form.pc = "clean"
    /\ Cardinality(db["Match"]) < MaxMatches
    /\ IF CanInsert(db, "Match", r)
       THEN /\ db' = Insert(db, "Match", r)
            /\ form' = [form EXCEPT !.pc = "saved"]
       ELSE /\ db' = db
            /\ form' = [form EXCEPT !.pc = "invalid",
                                    !.error = Rejection(db, "Match", r, TRUE)]
    /\ UNCHANGED <<last, writers, attempts, txn, draft, probe, cells>>

\* the caller has seen the outcome
MDone ==
    /\ form.pc \in {"invalid", "saved"}
    /\ form' = NoForm
    /\ UNCHANGED <<db, last, writers, attempts, txn, draft, probe, cells>>

NextMatch ==
    \/ \E fk \in FkChoices("Match") : MBuild(fk)
    \/ MFullClean
    \/ MSave
    \/ MDone

SpecMatch == InitMatch /\ [][NextMatch]_vars

\* ------------------------------------------------- friend codes
Digits == {"0", "1", "2", "3", "4", "5", "6", "7", "8", "9"}

\* the items of a pattern: ^, $, a literal, a character class repeated n times
Bol == [t |-> "bol", set |-> {}, n |-> 0]
Eol == [t |-> "eol", set |-> {}, n |-> 0]
Lit(c) == [t |-> "lit", set |-> {c}, n |-> 1]
Class(set, n) == [t |-> "class", set |-> set, n |-> n]

\* r'^[0-9]{4}-[0-9]{4}-[0-9]{4}$'
FriendCodePattern ==
    <<Bol, Class(Digits, 4), Lit("-"), Class(Digits, 4), Lit("-"),
      Class(Digits, 4), Eol>>

\* where a match of items k.. of pat that starts after pos characters of s
\* ends, or -1; $ matches at the end and before a final newline
RECURSIVE MatchEnd(_, _, _, _)
MatchEnd(pat, k, s, pos) ==
    IF k > Len(pat) THEN pos
    ELSE LET it == pat[k] IN
         CASE it.t = "bol" ->
                IF pos = 0 THEN MatchEnd(pat, k + 1, s, pos) ELSE -1
           [] it.t = "eol" ->
                IF pos = Len(s) \/ (pos = Len(s) - 1 /\ s[Len(s)] = "\n")
                THEN MatchEnd(pat, k + 1, s, pos) ELSE -1
           [] OTHER ->
                IF pos + it.n <= Len(s) /\ \A i \in 1..it.n : s[pos + i] \in it.set
                THEN MatchEnd(pat, k + 1, s, pos + it.n) ELSE -1

\* re.match: a match at the start of s, wherever it ends
re_match(pat, s) == MatchEnd(pat, 1, s, 0) # -1

\* re.fullmatch: the match must end at the end of s
re_fullmatch(pat, s) == MatchEnd(pat, 1, s, 0) = Len(s)

fc_validator(value) ==
    IF ~re_fullmatch(FriendCodePattern, value) THEN "ValidationError" ELSE ""

\* the texts the edits start from
FcSeeds ==
    {<<"1", "2", "3", "4", "-", "5", "6", "7", "8", "-", "9", "0", "1", "2">>,
     <<"a", "b", "c", "d", "-", "e", "f", "g", "h", "-", "i", "j", "k", "l">>}

\* the characters the edits put in
FcAlphabet == {"7", "-", "a", "\n"}

InitFriendCode ==
    /\ db = [m \in Models |-> {}]
    /\ last = NoLast
    /\ writers = [p \in Writers |-> Idle]
    /\ attempts = 0
    /\ txn = NoTxn
    /\ form = NoForm
    /\ probe = NoProbe
    /\ cells = NoRow
    /\ draft \in {[text |-> s, edits |-> 0] : s \in FcSeeds}

Edited(text) ==
    /\ draft.edits < MaxEdits
    /\ draft' = [text |-> text, edits |-> draft.edits + 1]
    /\ probe' = NoProbe
    /\ UNCHANGED <<db, last, writers, attempts, txn, form, cells>>

FcSubstitute(i, c) ==
    /\ draft.text[i] # c
    /\ Edited([draft.text EXCEPT ![i] = c])

FcInsert(i, c) ==
    Edited(SubSeq(draft.text, 1, i) \o <<c>> \o SubSeq(draft.text, i + 1, Len(draft.text)))

FcDelete(i) ==
    Edited(SubSeq(draft.text, 1, i - 1) \o SubSeq(draft.text, i + 1, Len(draft.text)))

\* Player.friend_code is cleaned: validators=[fc_validator]
FcClean ==
    /\ probe = NoProbe
    /\ probe' = [op |-> "clean", model |-> "Player", field |-> "friend_code",
                 value |-> draft.text, error |-> fc_validator(draft.text)]
    /\ UNCHANGED <<db, last, writers, attempts, txn, form, draft, cells>>

NextFriendCode ==
    \/ \E i \in 1..Len(draft.text) : \E c \in FcAlphabet : FcSubstitute(i, c)
    \/ \E i \in 0..Len(draft.text) : \E c \in FcAlphabet : FcInsert(i, c)
    \/ \E i \in 1..Len(draft.text) : FcDelete(i)
    \/ FcClean

SpecFriendCode == InitFriendCode /\ [][NextFriendCode]_vars

\* ------------------------------------------------- integer fields
MinRaces == 0
MaxRaces == 12

\* a validator that also rejects the ends of the interval
num_races_validator_Exclusive(value) ==
    IF value <= MinRaces \/ value >= MaxRaces THEN "ValidationError" ELSE ""

num_races_validator(value) ==
    IF value < MinRaces \/ value > MaxRaces THEN "ValidationError" ELSE ""

\* django.core.validators.MinValueValidator(limit)
MinValueValidator(limit, value) ==
    IF value < limit THEN "ValidationError" ELSE ""

DivisionFloor == 1

\* the IntegerFields with their validators= lists
Team_division ==
    [model |-> "Team", name |-> "division", validators |-> {"MinValueValidator"}]

MatchTeamData_race_amount ==
    [model |-> "MatchTeamData", name |-> "race_amount", validators |-> {}]

MatchPlayerData_races_played ==
    [model |-> "MatchPlayerData", name |-> "races_played",
     validators |-> {"num_races_validator"}]

MatchPlayerData_subbed_in ==
    [model |-> "MatchPlayerData", name |-> "subbed_in",
     validators |-> {"num_races_validator"}]

MatchPlayerData_subbed_out ==
    [model |-> "MatchPlayerData", name |-> "subbed_out",
     validators |-> {"num_races_validator"}]

Event_event_race_amount ==
    [model |-> "Event", name |-> "event_race_amount",
     validators |-> {"num_races_validator"}]

EventPlayerData_races_played ==
    [model |-> "EventPlayerData", name |-> "races_played",
     validators |-> {"num_races_validator"}]

EventPlayerData_subbed_in ==
    [model |-> "EventPlayerData", name |-> "subbed_in",
     validators |-> {"num_races_validator"}]

EventPlayerData_subbed_out ==
    [model |-> "EventPlayerData", name |-> "subbed_out",
     validators |-> {"num_races_validator"}]

IntFields ==
    {Team_division, MatchTeamData_race_amount, MatchPlayerData_races_played,
     MatchPlayerData_subbed_in, MatchPlayerData_subbed_out,
     Event_event_race_amount, EventPlayerData_races_played,
     EventPlayerData_subbed_in, EventPlayerData_subbed_out}

\* Field.run_validators: the errors the field's validators raise for value
run_validators(f, value) ==
    {v \in f.validators :
        CASE v = "num_races_validator" -> num_races_validator(value) # ""
          [] v = "MinValueValidator" -> MinValueValidator(DivisionFloor, value) # ""}

\* the integers tried
IntProbes == (MinRaces - ProbeMargin)..(MaxRaces + ProbeMargin)

\* field f of an instance is cleaned with value n
CleanInt(f, n) ==
    /\ probe' = [op |-> "clean", model |-> f.model, field |-> f.name, value |-> n,
                 error |-> IF run_validators(f, n) = {} THEN "" ELSE "ValidationError"]
    /\ UNCHANGED <<db, last, writers, attempts, txn, form, draft, cells>>

NextRaces == \E f \in IntFields : \E n \in IntProbes : CleanInt(f, n)

SpecRaces == Init /\ [][NextRaces]_vars

\* ------------------------------------------------- choices fields
\* the members of the TextChoices classes: name = (value, label)
EventFormat ==
    {[name |-> "fFFA", value |-> "FFA", label |-> "ffa"],
     [name |-> "f2v2", value |-> "2V2", label |-> "2v2"],
     [name |-> "f3v3", value |-> "3V3", label |-> "3v3"],
     [name |-> "f4v4", value |-> "4V4", label |-> "4v4"],
     [name |-> "f6v6", value |-> "6V6", label |-> "6v6"]}

PlayerDivision ==
    {[name |-> "IRON", value |-> "IRON", label |-> "iron"],
     [name |-> "BRONZE", value |-> "BRONZE", label |-> "bronze"],
     [name |-> "SILVER", value |-> "SILVER", label |-> "silver"],
     [name |-> "GOLD", value |-> "GOLD", label |-> "gold"],
     [name |-> "PLATINUM", value |-> "PLATINUM", label |-> "platinum"]}

\* the pairs the wrong way round: (label, value)
Choices_Swapped(enum) == {<<e.label, e.value>> : e \in enum}

\* TextChoices.choices: the (value, label) pairs
Choices(enum) == {<<e.value, e.label>> : e \in enum}

\* the TextFields with choices=; default is a member name, "" for none
Player_division ==
    [model |-> "Player", name |-> "division", choices |-> Choices(PlayerDivision),
     default |-> {e \in PlayerDivision : e.name = "IRON"}]

Event_event_format ==
    [model |-> "Event", name |-> "event_format", choices |-> Choices(EventFormat),
     default |-> {e \in EventFormat : e.name = "f2v2"}]

EventPlayerData_before_division ==
    [model |-> "EventPlayerData", name |-> "before_division",
     choices |-> Choices(PlayerDivision), default |-> {}]

EventPlayerData_after_division ==
    [model |-> "EventPlayerData", name |-> "after_division",
     choices |-> Choices(PlayerDivision), default |-> {}]

ChoiceFields ==
    {Player_division, Event_event_format, EventPlayerData_before_division,
     EventPlayerData_after_division}

ChoiceModels == {f.model : f \in ChoiceFields}

FieldsOf(m) == {f \in ChoiceFields : f.model = m}

FieldNamed(m, n) == CHOOSE f \in ChoiceFields : f.model = m /\ f.name = n

\* what a caller assigns to a field: a member of a TextChoices class, a
\* plain string, or nothing
Member(e) == [kind |-> "member", name |-> e.name, value |-> e.value, label |-> e.label]
Str(t) == [kind |-> "str", name |-> "", value |-> t, label |-> ""]
Omitted == [kind |-> "omitted", name |-> "", value |-> "", label |-> ""]

\* TextField.to_python: str(value); str() of a member is its value; a field
\* left out takes the default, or '' without one
to_python(f, input) ==
    CASE input.kind = "member" -> input.value
      [] input.kind = "str" -> input.value
      [] OTHER -> IF f.default = {} THEN ""
                  ELSE (CHOOSE e \in f.default : TRUE).value

\* the option keys Field.validate compares the value with
OptionKeys(choices) == {c[1] : c \in choices}

\* Field.validate: blank is refused, and so is a value that is no option key
Field_validate(f, value) ==
    IF value = "" \/ value \notin OptionKeys(f.choices) THEN "ValidationError" ELSE ""

\* the inputs tried for a field: the members of both classes, their values
\* and labels as strings, other strings, and nothing
ChoiceInputs ==
    {Member(e) : e \in PlayerDivision \cup EventFormat}
    \cup {Str(t) : t \in {"IRON", "PLATINUM", "iron", "FFA", "6V6", "fFFA", "ffa",
                          "DIAMOND", ""}}
    \cup {Omitted}

\* the inputs of one instance: one for each choices field of model m
InstanceInputs(m) == [{f.name : f \in FieldsOf(m)} -> ChoiceInputs]

\* full_clean() cleans every field; save() stores the row when none failed
WriteRow(m, inputs) ==
    LET values == [n \in DOMAIN inputs |-> to_python(FieldNamed(m, n), inputs[n])]
        errors == {n \in DOMAIN inputs :
                      Field_validate(FieldNamed(m, n), values[n]) # ""}
    IN
    /\ probe' = [op |-> "write", model |-> m, inputs |-> inputs, errors |-> errors]
    /\ cells' = IF errors = {} THEN [model |-> m, values |-> values] ELSE cells
    /\ UNCHANGED <<db, last, writers, attempts, txn, form, draft>>

\* the row just written is read back from the database
ReadRow ==
    /\ probe.op = "write" /\ probe.errors = {}
    /\ probe' = [op |-> "read", model |-> cells.model, inputs |-> probe.inputs,
                 values |-> cells.values]
    /\ UNCHANGED <<db, last, writers, attempts, txn, form, draft, cells>>

NextChoices ==
    \/ \E m \in ChoiceModels : \E inputs \in InstanceInputs(m) : WriteRow(m, inputs)
    \/ ReadRow

SpecChoices == Init /\ [][NextChoices]_vars

\* ------------------------------------------------------------------ claims
\* row <<m, pk>> is root, or reaches it by following foreign keys upwards
RECURSIVE DependsOn(_, _, _, _)
DependsOn(d, m, pk, root) ==
    \/ <<m, pk>> = root
    \/ \E r \in d[m] :
           /\ r.pk = pk
           /\ \E f \in DOMAIN r.fk :
                  DependsOn(d, Schema[m].fks[f].to, r.fk[f], root)

\* C1: after a Team is deleted, its TeamStats, its Players, every Match that
\* had it as team_one or team_two and every MatchTeamData / MatchPlayerData
\* of the Team, of those Matches or of those Players are gone, and no stored
\* row holds a foreign key to a row that no longer exists.
C1_TeamDeleteCascades ==
    (last.op = "delete" /\ last.model = "Team") =>
        /\ last.pk \notin Pks(db, "Team")
        /\ \A r \in db["TeamStats"] : r.fk.team # last.pk
        /\ \A r \in db["Player"] : r.fk.team # last.pk
        /\ \A r \in db["Match"] :
               r.fk.team_one # last.pk /\ r.fk.team_two # last.pk
        /\ \A r \in db["MatchTeamData"] :
               r.fk.team # last.pk /\ r.fk.match \in Pks(db, "Match")
        /\ \A r \in db["MatchPlayerData"] :
               r.fk.match \in Pks(db, "Match") /\ r.fk.player \in Pks(db, "Player")
        /\ NoDangling(db)

\* a Team with a Player was deleted, and with it a Match and the
\* MatchPlayerData of that Match, while another Team stays
C1_Witness ==
    /\ last.op = "delete" /\ last.model = "Team"
    /\ {"Player", "Match", "MatchPlayerData"} \subseteq last.deleted
    /\ db["Team"] # {}

\* C2: after a Tournament is deleted, every Match and Event of it, its
\* WarTournamentWinners and MogiTournamentWinners rows and the data rows of
\* those Matches and Events are gone: no stored row references the
\* Tournament or a row removed with it.
C2_TournamentDeleteCascades ==
    (last.op = "delete" /\ last.model = "Tournament") =>
        /\ last.pk \notin Pks(db, "Tournament")
        /\ \A r \in db["Match"] \cup db["Event"] : r.fk.tournament # last.pk
        /\ \A r \in db["WarTournamentWinners"] \cup db["MogiTournamentWinners"] :
               r.fk.tournament # last.pk
        /\ \A r \in db["MatchTeamData"] \cup db["MatchPlayerData"] :
               r.fk.match \in Pks(db, "Match")
        /\ \A r \in db["EventPlayerData"] : r.fk.event \in Pks(db, "Event")
        /\ NoDangling(db)

\* a Tournament was deleted together with a Match, an Event and a winners
\* row that pointed at the Match
C2_Witness ==
    /\ last.op = "delete" /\ last.model = "Tournament"
    /\ {"Match", "Event", "WarTournamentWinners"} \subseteq last.deleted

\* C6: at most one TeamStats row per Team, one EventPlayerStats row per
\* Player, and one WarTournamentWinners and one MogiTournamentWinners row per
\* Tournament.
C6_SingletonPerParent ==
    /\ \A r1, r2 \in db["TeamStats"] : r1.fk.team = r2.fk.team => r1 = r2
    /\ \A r1, r2 \in db["EventPlayerStats"] : r1.fk.player = r2.fk.player => r1 = r2
    /\ \A r1, r2 \in db["WarTournamentWinners"] :
           r1.fk.tournament = r2.fk.tournament => r1 = r2
    /\ \A r1, r2 \in db["MogiTournamentWinners"] :
           r1.fk.tournament = r2.fk.tournament => r1 = r2

\* a second TeamStats row for a Team that has one was just rejected
C6_Witness ==
    /\ last.op = "create" /\ last.model = "TeamStats"
    /\ last.result = "IntegrityError: primary key"
    /\ db["TeamStats"] # {}

\* the pair of foreign keys each constrained model is keyed by
PairFields ==
    [MatchPlayerData |-> {"player", "match"},
     EventPlayerData |-> {"event", "player"},
     PlayerPermissions |-> {"player", "permission"}]

PairStored(d, m, fk) ==
    \E r \in d[m] : \A f \in PairFields[m] : r.fk[f] = fk[f]

\* C3: in every state each (player, match), (event, player) and
\* (player, permission) pair has at most one row, and an INSERT by any writer
\* whose pair is already stored answers a uniqueness conflict and leaves the
\* store as it was.
C3_PairUnique ==
    [][/\ \A m \in DOMAIN PairFields : \A r1, r2 \in db'[m] :
              (\A f \in PairFields[m] : r1.fk[f] = r2.fk[f]) => r1 = r2
       /\ \A p \in Writers :
              (/\ writers[p].pc \in {"built", "validated"}
               /\ writers'[p].pc = "done"
               /\ writers'[p].result # "ValidationError"
               /\ PairStored(db, writers[p].m, writers[p].fk))
              => /\ writers'[p].result = "IntegrityError: unique constraint"
                 /\ db' = db]_vars

\* a writer whose full_clean found the pair free was rejected by the
\* database, because another writer stored the pair in between
C3_Witness ==
    \E p \in Writers :
        /\ writers[p].pc = "done" /\ writers[p].cleaned
        /\ writers[p].result = "IntegrityError: unique constraint"
        /\ \E r \in db[writers[p].m] :
               r.data # p /\ \A f \in PairFields[writers[p].m] : r.fk[f] = writers[p].fk[f]

C5_SelfMatchRejected ==
    [][/\ (form.pc = "built" /\ form'.pc \in {"clean", "invalid"}) =>
              /\ (form'.pc = "invalid") <=> (form.fk.team_one = form.fk.team_two)
              /\ (form'.pc = "invalid") <=> (form'.error = "ValidationError")
       /\ (form.pc = "invalid" \/ form'.pc = "invalid") => db' = db
       /\ db'["Match"] # db["Match"] =>
              /\ form.pc = "clean"
              /\ form.fk.team_one # form.fk.team_two]_vars

\* a Match of a Team against itself failed validation, after a Match between
\* two Teams went through the same steps and was stored
C5_Witness ==
    /\ form.pc = "invalid" /\ form.error = "ValidationError"
    /\ form.fk.team_one = form.fk.team_two
    /\ Cardinality(db["Match"]) = 2

IsFriendCode(s) ==
    /\ Len(s) = 14
    /\ \A i \in 1..14 : IF i \in {5, 10} THEN s[i] = "-" ELSE s[i] \in Digits

\* C7: fc_validator accepts a text exactly when the whole of it is four
\* digits, a hyphen, four digits, a hyphen, four digits.
C7_FriendCodeExact ==
    (probe.op = "clean" /\ probe.field = "friend_code") =>
        ((probe.error = "") <=> IsFriendCode(probe.value))

\* an edited text, different from the seed, was accepted
C7_Witness ==
    /\ probe.op = "clean" /\ probe.field = "friend_code"
    /\ probe.error = ""
    /\ draft.edits = MaxEdits
    /\ probe.value \notin FcSeeds

\* the fields the race-count validator is said to guard
RaceFields ==
    {<<"MatchPlayerData", "races_played">>, <<"MatchPlayerData", "subbed_in">>,
     <<"MatchPlayerData", "subbed_out">>, <<"EventPlayerData", "races_played">>,
     <<"EventPlayerData", "subbed_in">>, <<"EventPlayerData", "subbed_out">>,
     <<"Event", "event_race_amount">>}

\* C8: cleaning races_played, subbed_in or subbed_out of MatchPlayerData or
\* EventPlayerData, or Event.event_race_amount, accepts n exactly when
\* 0 <= n <= 12.
C8_RaceCountRange ==
    (probe.op = "clean" /\ <<probe.model, probe.field>> \in RaceFields) =>
        ((probe.error = "") <=> (0 <= probe.value /\ probe.value <= 12))

\* the ends of the interval were accepted on a guarded field
C8_Witness ==
    /\ probe.op = "clean" /\ <<probe.model, probe.field>> \in RaceFields
    /\ probe.value \in {0, 12} /\ probe.error = ""

\* the codes of the two vocabularies
DivisionCodes == {"IRON", "BRONZE", "SILVER", "GOLD", "PLATINUM"}
FormatCodes == {"FFA", "2V2", "3V3", "4V4", "6V6"}

CodesOf(m, n) == IF m = "Event" /\ n = "event_format" THEN FormatCodes ELSE DivisionCodes

\* the code each member of the two classes stands for
MemberCode ==
    [fFFA |-> "FFA", f2v2 |-> "2V2", f3v3 |-> "3V3", f4v4 |-> "4V4", f6v6 |-> "6V6",
     IRON |-> "IRON", BRONZE |-> "BRONZE", SILVER |-> "SILVER", GOLD |-> "GOLD",
     PLATINUM |-> "PLATINUM"]

\* the code a caller writes with an input: the string itself, or the code of
\* the member
CodeOf(input) ==
    IF input.kind = "member" THEN MemberCode[input.name] ELSE input.value

\* C9: a write of a PlayerDivision code to Player.division or to
\* EventPlayerData.before_division / after_division, or of an EventFormat
\* code to Event.event_format, is accepted and the code is stored and read
\* back unchanged; a write of anything else is rejected, and no stored row
\* holds a value outside the enumeration of its field.
C9_ChoicesRoundTrip ==
    /\ cells.model # "" =>
           \A n \in DOMAIN cells.values : cells.values[n] \in CodesOf(cells.model, n)
    /\ probe.op = "write" =>
           /\ \A n \in DOMAIN probe.inputs : probe.inputs[n].kind # "omitted" =>
                  ((n \in probe.errors) <=>
                       (CodeOf(probe.inputs[n]) \notin CodesOf(probe.model, n)))
           /\ probe.errors = {} =>
                  /\ cells.model = probe.model
                  /\ \A n \in DOMAIN probe.inputs : probe.inputs[n].kind # "omitted" =>
                         cells.values[n] = CodeOf(probe.inputs[n])
    /\ probe.op = "read" =>
           \A n \in DOMAIN probe.inputs : probe.inputs[n].kind # "omitted" =>
               probe.values[n] = CodeOf(probe.inputs[n])

\* an EventPlayerData row written with a member and with a plain code was
\* read back with both codes
C9_Witness ==
    /\ probe.op = "read" /\ probe.model = "EventPlayerData"
    /\ probe.inputs["before_division"].kind = "member"
    /\ probe.inputs["after_division"].kind = "str"
    /\ probe.values["before_division"] = "GOLD"
    /\ probe.values["after_division"] = "PLATINUM"

\* the store a delete of Team t must leave behind, table by table
TeamDeleteFrame(d, d2, t) ==
    LET involves(mpk) == \E r \in d["Match"] :
            r.pk = mpk /\ (r.fk.team_one = t \/ r.fk.team_two = t)
        ofT(ppk) == \E r \in d["Player"] : r.pk = ppk /\ r.fk.team = t
    IN
    /\ d2["Team"] = {r \in d["Team"] : r.pk # t}
    /\ d2["Tournament"] = d["Tournament"]
    /\ d2["Event"] = d["Event"]
    /\ d2["Permissions"] = d["Permissions"]
    /\ d2["MogiTournamentWinners"] = d["MogiTournamentWinners"]
    /\ d2["TeamStats"] = {r \in d["TeamStats"] : r.fk.team # t}
    /\ d2["Player"] = {r \in d["Player"] : r.fk.team # t}
    /\ \A m \in {"EventPlayerStats", "ApiKeys", "PlayerPermissions", "EventPlayerData"} :
           d2[m] = {r \in d[m] : ~ofT(r.fk.player)}
    /\ d2["Match"] = {r \in d["Match"] : ~involves(r.pk)}
    /\ d2["MatchTeamData"] =
           {r \in d["MatchTeamData"] : r.fk.team # t /\ ~involves(r.fk.match)}
    /\ d2["MatchPlayerData"] =
           {r \in d["MatchPlayerData"] : ~ofT(r.fk.player) /\ ~involves(r.fk.match)}
    /\ d2["WarTournamentWinners"] =
           {r \in d["WarTournamentWinners"] : ~involves(r.fk.final_match)}

\* C10: deleting Team T removes only rows that reach T through foreign keys;
\* other Teams, their TeamStats and Players with their per-player rows, every
\* Tournament, Event, Permissions row and Match without T stay; of other
\* teams' rows only the MatchTeamData and MatchPlayerData of Matches against
\* T go, and of tournament-level rows only the WarTournamentWinners whose
\* final_match involved T.
C10_TeamDeleteFrame ==
    [][(last'.op = "delete" /\ last'.model = "Team") =>
          /\ TeamDeleteFrame(db, db', last'.pk)
          /\ \A m \in Models : \A r \in db[m] \ db'[m] :
                 DependsOn(db, m, r.pk, <<"Team", last'.pk>>)]_vars

\* a Team was deleted and took a MatchPlayerData of another team's Player
\* with it, while that Player, the other Team and the Tournament stay
C10_Witness ==
    /\ last.op = "delete" /\ last.model = "Team"
    /\ "MatchPlayerData" \in last.deleted /\ "Player" \notin last.deleted
    /\ db["Player"] # {} /\ db["Team"] # {} /\ db["Tournament"] # {}
====
